---- MODULE Spec2Model ----
(***************************************************************************)
(* A model of qdk_chemistry's geometry model, XYZ codec and input-deck     *)
(* generators (geometry/geometry.py, geometry/xyz.py, solvers/nwchem.py,   *)
(* solvers/openmolcas.py).                                                 *)
(*                                                                         *)
(* Text is a sequence of one-character strings.  A Python float is a       *)
(* decimal fixed-point number: the integer count of 10^-FracDigits units,  *)
(* printed the way repr(float) prints it (shortest digits, exponent form   *)
(* below 1e-4) and read the way float(str) reads it.  Python's None is the *)
(* empty tuple and a present value v is <<v>>.                             *)
(***************************************************************************)
EXTENDS Integers, Sequences, FiniteSets, TLC

VARIABLES atoms, charge, op, pre, xyz, out, view, args, deck, exc, warned

vars == <<atoms, charge, op, pre, xyz, out, view, args, deck, exc, warned>>

\* ------------------------------------------------------------- bounds
MaxAtoms == 2
MaxLines == 2
MaxCharge == 1
MaxElectrons == 3
FracDigits == 5

\* ------------------------------------------------------- Python values
None == <<>>
Some(v) == <<v>>
IsNone(o) == o = <<>>

NL == "\n"
SP == " "

DigitChars == <<"0", "1", "2", "3", "4", "5", "6", "7", "8", "9">>
Digits == {DigitChars[i] : i \in 1..10}
Letters == {"a", "b", "c", "d", "e", "f", "g", "h", "i", "j", "k", "l", "m",
            "n", "o", "p", "q", "r", "s", "t", "u", "v", "w", "x", "y", "z",
            "A", "B", "C", "D", "E", "F", "G", "H", "I", "J", "K", "L", "M",
            "N", "O", "P", "Q", "R", "S", "T", "U", "V", "W", "X", "Y", "Z"}
DigitVal(c) == (CHOOSE i \in 1..10 : DigitChars[i] = c) - 1

RECURSIVE Pow10(_)
Pow10(k) == IF k <= 0 THEN 1 ELSE 10 * Pow10(k - 1)

Scale == Pow10(FracDigits)

Abs(n) == IF n < 0 THEN -n ELSE n

\* str(int) of a non-negative int
RECURSIVE NatStr(_)
NatStr(n) == IF n < 10 THEN <<DigitChars[n + 1]>>
             ELSE NatStr(n \div 10) \o <<DigitChars[(n % 10) + 1]>>

\* f"{n}" of an int
IntStr(n) == IF n < 0 THEN <<"-">> \o NatStr(-n) ELSE NatStr(n)

\* f"{o}" of an Optional[int]
OptStr(o) == IF IsNone(o) THEN <<"N", "o", "n", "e">> ELSE IntStr(o[1])

RECURSIVE StripZeros(_)
StripZeros(ds) == IF Len(ds) > 0 /\ ds[Len(ds)] = "0"
                  THEN StripZeros(SubSeq(ds, 1, Len(ds) - 1)) ELSE ds

RECURSIVE PadLeft(_, _)
PadLeft(ds, k) == IF Len(ds) >= k THEN ds ELSE PadLeft(<<"0">> \o ds, k)

\* repr(float) prints fixed-point notation for 1e-4 <= |x| < 1e16 and for 0
PrintsFixed(v) == v = 0 \/ Abs(v) >= Pow10(FracDigits - 4)

\* f"{x}" of a float x = v * 10^-FracDigits
FloatStr(v) ==
    LET a    == Abs(v)
        sign == IF v < 0 THEN <<"-">> ELSE <<>>
    IN  IF PrintsFixed(v)
        THEN LET frac == StripZeros(PadLeft(NatStr(a % Scale), FracDigits))
             IN  sign \o NatStr(a \div Scale) \o <<".">>
                      \o (IF frac = <<>> THEN <<"0">> ELSE frac)
        ELSE LET ds   == NatStr(a)
                 mant == StripZeros(ds)
                 e    == FracDigits - (Len(ds) - 1)
             IN  sign \o <<mant[1]>>
                      \o (IF Len(mant) > 1
                          THEN <<".">> \o SubSeq(mant, 2, Len(mant)) ELSE <<>>)
                      \o <<"e", "-">> \o PadLeft(NatStr(e), 2)

RECURSIVE DigitsVal(_)
DigitsVal(ds) == IF ds = <<>> THEN 0
                 ELSE 10 * DigitsVal(SubSeq(ds, 1, Len(ds) - 1)) + DigitVal(ds[Len(ds)])

\* float(tok) of a token FLOAT_PATTERN matched: [+-]?[0-9]*[.][0-9]+ with at
\* most FracDigits fractional digits
ParseFloat(tok) ==
    LET signed == tok[1] \in {"+", "-"}
        body   == IF signed THEN SubSeq(tok, 2, Len(tok)) ELSE tok
        dot    == CHOOSE i \in 1..Len(body) : body[i] = "."
        ip     == SubSeq(body, 1, dot - 1)
        fp     == SubSeq(body, dot + 1, Len(body))
        mag    == DigitsVal(ip) * Scale + DigitsVal(fp) * Pow10(FracDigits - Len(fp))
    IN  IF tok[1] = "-" THEN -mag ELSE mag

RECURSIVE Join(_, _)
\* sep.join(parts)
Join(parts, sep) ==
    IF parts = <<>> THEN <<>>
    ELSE IF Len(parts) = 1 THEN parts[1]
    ELSE parts[1] \o sep \o Join(Tail(parts), sep)

\* ------------------------------------------------- geometry/xyz.py
element_to_xyz(name, x, y, z) ==
    name \o <<SP>> \o FloatStr(x) \o <<SP>> \o FloatStr(y) \o <<SP>> \o FloatStr(z)

T_title == <<"t", "i", "t", "l", "e">>
T_set == <<"$", "s", "e", "t">>
T_chrg == <<"c", "h", "r", "g">>
T_end == <<"$", "e", "n", "d">>

\* for element in coordinates: result.append(f"{element_to_xyz(*element)} ")
RECURSIVE AtomLines(_)
AtomLines(coordinates) ==
    IF coordinates = <<>> THEN <<>>
    ELSE LET e == coordinates[1]
         IN  <<element_to_xyz(e[1], e[2], e[3], e[4]) \o <<SP>>>>
                 \o AtomLines(Tail(coordinates))

\* Python's charge != 0: None compares unequal to every int
NotEqualZero(c) == IF IsNone(c) THEN TRUE ELSE c[1] # 0

ChargeBlock(c) == <<T_set, T_chrg \o <<SP>> \o OptStr(c), T_end>>

\* the block only for a positive charge (a seeded fault)
coordinates_to_xyz_positive(number_of_atoms, c, coordinates) ==
    Join(<<IntStr(number_of_atoms), T_title>> \o AtomLines(coordinates)
             \o (IF ~IsNone(c) /\ c[1] > 0 THEN ChargeBlock(c) ELSE <<>>),
         <<NL>>)

\* every line newline-terminated (a seeded fault)
coordinates_to_xyz_terminated(number_of_atoms, c, coordinates) ==
    Join(<<IntStr(number_of_atoms), T_title>> \o AtomLines(coordinates)
             \o (IF NotEqualZero(c) THEN ChargeBlock(c) ELSE <<>>),
         <<NL>>) \o <<NL>>

coordinates_to_xyz(number_of_atoms, c, coordinates) ==
    Join(<<IntStr(number_of_atoms), T_title>> \o AtomLines(coordinates)
             \o (IF NotEqualZero(c) THEN ChargeBlock(c) ELSE <<>>),
         <<NL>>)

\* ------------------------------------------- geometry/geometry.py
\* \w on the characters the model's texts use
IsWord(c) == c \in Letters \cup Digits \cup {"_"}

RECURSIVE DigitRun(_, _)
\* the first position at or after p that holds no digit: greedy [0-9]*
DigitRun(s, p) == IF p <= Len(s) /\ s[p] \in Digits THEN DigitRun(s, p + 1) ELSE p

\* FLOAT_PATTERN matched at p: the position after the match, or 0.  Each
\* greedy step is followed by a character outside its class, so the regex
\* engine's backtracking finds no other match.
FLOAT_PATTERN(s, p) ==
    LET q == IF p <= Len(s) /\ s[p] \in {"+", "-"} THEN p + 1 ELSE p
        r == DigitRun(s, q)
        t == DigitRun(s, r + 1)
    IN  IF r <= Len(s) /\ s[r] = "." /\ t > r + 1 THEN t ELSE 0

At(s, p, c) == p >= 1 /\ p <= Len(s) /\ s[p] = c

\* XYZ_PATTERN matched at i: [end |-> position after the match or 0,
\* groups |-> the four groups]
XYZ_PATTERN(s, i) ==
    LET a == IF i <= Len(s) /\ IsWord(s[i]) /\ At(s, i + 1, SP)
             THEN FLOAT_PATTERN(s, i + 2) ELSE 0
        b == IF a > 0 /\ At(s, a, SP) THEN FLOAT_PATTERN(s, a + 1) ELSE 0
        c == IF b > 0 /\ At(s, b, SP) THEN FLOAT_PATTERN(s, b + 1) ELSE 0
    IN  IF c > 0
        THEN [end |-> c,
              groups |-> <<<<s[i]>>, SubSeq(s, i + 2, a - 1),
                           SubSeq(s, a + 1, b - 1), SubSeq(s, b + 1, c - 1)>>]
        ELSE [end |-> 0, groups |-> <<>>]

RECURSIVE findall_from(_, _)
\* re.findall: leftmost non-overlapping matches, scanning from position i
findall_from(s, i) ==
    IF i > Len(s) THEN <<>>
    ELSE LET m == XYZ_PATTERN(s, i)
         IN  IF m.end > 0 THEN <<m.groups>> \o findall_from(s, m.end)
             ELSE findall_from(s, i + 1)

findall(s) == findall_from(s, 1)

\* Element(name=name, x=x, y=y, z=z)
Element(name, x, y, z) == [name |-> name, x |-> x, y |-> y, z |-> z]

\* the attributes an Element has: the dataclass fields and from_tuple
ElementAttrs == {"name", "x", "y", "z", "from_tuple"}

Element_from_tuple(value) ==
    Element(value[1], ParseFloat(value[2]), ParseFloat(value[3]), ParseFloat(value[4]))

RECURSIVE MapFromTuple(_)
MapFromTuple(items) ==
    IF items = <<>> THEN <<>>
    ELSE <<Element_from_tuple(items[1])>> \o MapFromTuple(Tail(items))

\* Geometry.from_xyz: the atoms of the Geometry returned (its charge is None)
from_xyz(s) == MapFromTuple(findall(s))

\* Geometry.coordinates
coordinates(self) == [i \in 1..Len(self) |-> <<self[i].name, self[i].x, self[i].y, self[i].z>>]

\* number_of_atoms one too many (a seeded fault)
to_xyz_miscounted(self, c) == coordinates_to_xyz(Len(self) + 1, c, coordinates(self))

\* Geometry.to_xyz
to_xyz(self, c) == coordinates_to_xyz(Len(self), c, coordinates(self))

\* ------------------------------------------------- solvers/nwchem.py
\* the electron-counting collaborator: a molecule handle is modelled by the
\* electron count it implies
num_electrons(mol) == mol[1]

T_nopen == <<"n", "o", "p", "e", "n">>
T_test == <<"_", "t", "e", "s", "t">>

\* no deck text was returned
NoDeck == [name |-> <<>>, geometry |-> <<>>, charge |-> <<>>, nopen |-> <<>>,
           num_orb |-> <<>>, num_el_a |-> <<>>, num_el_b |-> <<>>]

\* the branch at nwchem.py:130-135: the resolved active-electron count, the
\* exception raised and whether warnings.warn was called
ResolveElectrons(mol, num_active_el) ==
    IF ~IsNone(mol) /\ IsNone(num_active_el)
    THEN [el |-> Some(num_electrons(mol)), exc |-> "none", warned |-> FALSE]
    ELSE IF IsNone(mol) /\ IsNone(num_active_el)
    THEN [el |-> None, exc |-> "ValueError", warned |-> FALSE]
    ELSE [el |-> num_active_el, exc |-> "none", warned |-> TRUE]

\* NW_CHEM_TEMPLATE.format(...): the text substituted for each placeholder
\* that the modelled parameters reach (the other placeholders take their
\* defaults and the fixed text of the template is not repeated here)
RenderDeck(mol_name, geometry, num_active_orbitals, c, nopen, el) ==
    [name     |-> mol_name \o T_test,
     geometry |-> geometry,
     charge   |-> IntStr(c),
     nopen    |-> IF ~IsNone(nopen) THEN T_nopen \o <<SP>> \o IntStr(nopen[1]) ELSE <<>>,
     num_orb  |-> IntStr(num_active_orbitals),
     num_el_a |-> IntStr(el \div 2),
     num_el_b |-> IntStr(el \div 2)]

\* the molecule's count wins over the explicit one (a seeded fault)
create_input_deck_mol_first(mol_name, geometry, num_active_orbitals, c, nopen, mol, num_active_el) ==
    LET r == ResolveElectrons(mol, num_active_el)
        e == IF ~IsNone(mol) THEN num_electrons(mol) ELSE r.el[1]
    IN  [exc    |-> r.exc,
         warned |-> r.warned,
         deck   |-> IF r.exc = "none"
                    THEN RenderDeck(mol_name, geometry, num_active_orbitals, c, nopen, e)
                    ELSE NoDeck]

\* a default of zero active electrons instead of the error (a seeded fault)
create_input_deck_default(mol_name, geometry, num_active_orbitals, c, nopen, mol, num_active_el) ==
    LET r == ResolveElectrons(mol, num_active_el)
    IN  [exc    |-> "none",
         warned |-> r.warned,
         deck   |-> RenderDeck(mol_name, geometry, num_active_orbitals, c, nopen,
                               IF IsNone(r.el) THEN 0 ELSE r.el[1])]

\* create_input_deck: [exc, warned, deck]
create_input_deck(mol_name, geometry, num_active_orbitals, c, nopen, mol, num_active_el) ==
    LET r == ResolveElectrons(mol, num_active_el)
    IN  [exc    |-> r.exc,
         warned |-> r.warned,
         deck   |-> IF r.exc = "none"
                    THEN RenderDeck(mol_name, geometry, num_active_orbitals, c, nopen, r.el[1])
                    ELSE NoDeck]

\* --------------------------------------------- solvers/openmolcas.py
\* "\n".join(el.to_xyz() for el in geometry): Element defines no to_xyz, so
\* the first element raises AttributeError; an empty geometry joins nothing
format_geometry(geometry) ==
    IF geometry # <<>> /\ "to_xyz" \notin ElementAttrs
    THEN [exc |-> "AttributeError", text |-> <<>>]
    ELSE [exc |-> "none", text |-> Join(<<>>, <<NL>>)]

\* ------------------------------------------------------------ inputs
\* a coordinate given in units of 1e-4
Units4(n) == n * Pow10(FracDigits - 4)
\* a coordinate given in units of 1e-5, which repr prints as <n>e-05
Units5(n) == n * Pow10(FracDigits - 5)

E_H0 == Element(<<"H">>, 0, 0, 0)
E_H1 == Element(<<"H">>, 0, 0, Units4(7414))
E_C == Element(<<"C">>, Units4(-15000), Units4(2500), Units4(100000))
E_Na == Element(<<"N", "a">>, Units4(5000), Units4(-5000), Units4(20000))
E_O == Element(<<"O">>, Units5(1), 0, Units4(-12000))

Elements == {E_H0, E_H1, E_C, E_Na, E_O}

ElementSeqs(n) == UNION {[1..k -> Elements] : k \in 0..n}

Charges == {None} \cup {Some(c) : c \in (-MaxCharge)..MaxCharge}

Mols == {None} \cup {Some(n) : n \in 0..MaxElectrons}
ActiveEls == {None} \cup {Some(n) : n \in (-1)..MaxElectrons}
Nopens == {None, Some(0)}
MolName == <<"h", "2">>

XyzLines == {
    <<"2">>,
    <<"t", "i", "t", "l", "e">>,
    <<"H", " ", "0", ".", "0", " ", "0", ".", "0", " ", "0", ".", "7", "4", "1", "4">>,
    <<"C", " ", "1", ".", "0">>,
    <<"C", " ", "1", ".", "0", " ", "2", ".", "0", " ", "3", ".", "0">>,
    <<"C", " ", "1", " ", "2", " ", "3">>,
    <<"1", ".", "0", " ", "2", ".", "0", " ", "3", ".", "0", " ", "4", ".", "0">>,
    <<"N", "a", " ", "0", ".", "5", " ", "-", "0", ".", "5", " ", "2", ".", "0">>,
    <<"c", "h", "r", "g", " ", "-", "1">>
}

XyzLineSeqs == UNION {[1..k -> XyzLines] : k \in 0..MaxLines}

ExampleXyz == 
    <<"2", "\n",
    "t", "i", "t", "l", "e", "\n",
    "H", " ", "0", ".", "0", " ", "0", ".", "0", " ", "0", ".", "0", "\n",
    "H", " ", "0", ".", "0", " ", "0", ".", "0", " ", "0", ".", "7", "4", "1", "4", "\n">>

XyzInputs == {Join(ls, <<NL>>) : ls \in XyzLineSeqs} \cup {ExampleXyz}

\* ------------------------------------------------------ state machine
NoReceiver == [atoms |-> <<>>, charge |-> None]
Self == [atoms |-> atoms, charge |-> charge]
NoArgs == [mol |-> None, num_active_el |-> None, nopen |-> None]

\* what a call that returns nothing of the kind leaves in the result variables
NoResult(keep) ==
    /\ ("xyz" \in keep \/ xyz' = <<>>)
    /\ ("out" \in keep \/ out' = <<>>)
    /\ ("view" \in keep \/ view' = <<>>)
    /\ ("deck" \in keep \/ (args' = NoArgs /\ deck' = NoDeck /\ warned' = FALSE))
    /\ ("exc" \in keep \/ exc' = "none")

Init ==
    /\ atoms = <<>>
    /\ charge = None
    /\ op = "init"
    /\ pre = NoReceiver
    /\ xyz = <<>>
    /\ out = <<>>
    /\ view = <<>>
    /\ args = NoArgs
    /\ deck = NoDeck
    /\ exc = "none"
    /\ warned = FALSE

\* Geometry(es, charge=c)
Construct(es, c) ==
    /\ op = "init"
    /\ atoms' = es
    /\ charge' = c
    /\ op' = "Geometry"
    /\ pre' = NoReceiver
    /\ NoResult({})

\* Geometry.from_xyz(text)
FromXyz(text) ==
    /\ op = "init"
    /\ atoms' = from_xyz(text)
    /\ charge' = None
    /\ op' = "from_xyz"
    /\ pre' = NoReceiver
    /\ xyz' = text
    /\ NoResult({"xyz"})

\* self.append(e)
AppendAtom(e) ==
    /\ op # "init"
    /\ Len(atoms) < MaxAtoms
    /\ atoms' = Append(atoms, e)
    /\ op' = "append"
    /\ pre' = Self
    /\ UNCHANGED charge
    /\ NoResult({})

\* self.extend(es)
ExtendAtoms(es) ==
    /\ op # "init"
    /\ Len(es) > 1
    /\ Len(atoms) + Len(es) <= MaxAtoms
    /\ atoms' = atoms \o es
    /\ op' = "extend"
    /\ pre' = Self
    /\ UNCHANGED charge
    /\ NoResult({})

\* del self[i]
RemoveAtom(i) ==
    /\ op # "init"
    /\ atoms' = SubSeq(atoms, 1, i - 1) \o SubSeq(atoms, i + 1, Len(atoms))
    /\ op' = "remove"
    /\ pre' = Self
    /\ UNCHANGED charge
    /\ NoResult({})

\* self.charge = c
SetCharge(c) ==
    /\ op # "init"
    /\ charge' = c
    /\ op' = "set_charge"
    /\ pre' = Self
    /\ UNCHANGED atoms
    /\ NoResult({})

\* self.coordinates
Coordinates ==
    /\ op # "init"
    /\ view' = coordinates(atoms)
    /\ op' = "coordinates"
    /\ pre' = Self
    /\ UNCHANGED <<atoms, charge>>
    /\ NoResult({"view"})

\* self.to_xyz()
ToXyz ==
    /\ op # "init"
    /\ out' = to_xyz(atoms, charge)
    /\ op' = "to_xyz"
    /\ pre' = Self
    /\ UNCHANGED <<atoms, charge>>
    /\ NoResult({"out"})

\* Geometry.from_xyz(g.to_xyz()) on the text the last to_xyz returned; pre
\* stays the geometry g that was serialized
RoundTrip ==
    /\ op = "to_xyz"
    /\ atoms' = from_xyz(out)
    /\ charge' = None
    /\ op' = "from_xyz(to_xyz)"
    /\ xyz' = out
    /\ UNCHANGED pre
    /\ NoResult({"xyz"})

\* openmolcas.format_geometry(self)
FormatGeometry ==
    /\ op # "init"
    /\ LET r == format_geometry(atoms)
       IN  out' = r.text /\ exc' = r.exc
    /\ op' = "format_geometry"
    /\ pre' = Self
    /\ UNCHANGED <<atoms, charge>>
    /\ NoResult({"out", "exc"})

\* nwchem.create_input_deck(MolName, geometry=<the text to_xyz returned>,
\* num_active_orbitals=<one per atom>, nopen=nopen, mol=mol, num_active_el=el)
CreateInputDeck(mol, el, nopen) ==
    /\ op = "to_xyz"
    /\ LET r == create_input_deck(MolName, out, Len(atoms), 0, nopen, mol, el)
       IN  deck' = r.deck /\ exc' = r.exc /\ warned' = r.warned
    /\ args' = [mol |-> mol, num_active_el |-> el, nopen |-> nopen]
    /\ op' = "create_input_deck"
    /\ pre' = Self
    /\ UNCHANGED <<atoms, charge>>
    /\ NoResult({"deck", "exc"})

Next ==
    \/ \E es \in ElementSeqs(MaxAtoms), c \in Charges : Construct(es, c)
    \/ \E text \in XyzInputs : FromXyz(text)
    \/ \E e \in Elements : AppendAtom(e)
    \/ \E es \in ElementSeqs(MaxAtoms) : ExtendAtoms(es)
    \/ \E i \in 1..Len(atoms) : RemoveAtom(i)
    \/ \E c \in Charges : SetCharge(c)
    \/ Coordinates
    \/ ToXyz
    \/ RoundTrip
    \/ FormatGeometry
    \/ \E mol \in Mols, el \in ActiveEls, nopen \in Nopens : CreateInputDeck(mol, el, nopen)

Spec == Init /\ [][Next]_vars

\* ------------------------------------------------------------ claims
RECURSIVE SplitFrom(_, _, _)
SplitFrom(s, i, cur) ==
    IF i > Len(s) THEN <<cur>>
    ELSE IF s[i] = NL THEN <<cur>> \o SplitFrom(s, i + 1, <<>>)
    ELSE SplitFrom(s, i + 1, Append(cur, s[i]))

\* the lines of a text: text.split("\n")
SplitLines(s) == SplitFrom(s, 1, <<>>)

StartsWith(l, prefix) == Len(l) >= Len(prefix) /\ SubSeq(l, 1, Len(prefix)) = prefix

\* a line of the charge-setting block: $set, chrg ..., $end
IsBlockLine(l) == l = T_set \/ l = T_end \/ StartsWith(l, T_chrg)

HasBlockLine(text) == \E i \in 1..Len(SplitLines(text)) : IsBlockLine(SplitLines(text)[i])

\* the atom line the specification gives: <symbol> <x> <y> <z> and a space
AtomLineOf(e) ==
    e.name \o <<SP>> \o FloatStr(e.x) \o <<SP>> \o FloatStr(e.y) \o <<SP>>
           \o FloatStr(e.z) \o <<SP>>

\* C1: for an integer charge, the text to_xyz() returns ends with the three
\* lines $set, chrg <charge>, $end, placed right after the last atom line, if
\* and only if charge != 0; for charge == 0 no line of the text is a $set,
\* chrg or $end line.
C1_ChargeBlockIffNonzero ==
    (op = "to_xyz" /\ ~IsNone(charge)) =>
        LET ls == SplitLines(out)
            n  == Len(atoms)
            k  == Len(ls)
            ends == k >= 3 /\ SubSeq(ls, k - 2, k)
                        = <<T_set, T_chrg \o <<SP>> \o IntStr(charge[1]), T_end>>
        IN  /\ ends <=> charge[1] # 0
            /\ charge[1] # 0 =>
                   /\ k = n + 5
                   /\ \A i \in 1..(n + 2) : ~IsBlockLine(ls[i])
            /\ charge[1] = 0 => ~HasBlockLine(out)

\* C1 witness: to_xyz() has serialized a two-atom Geometry of negative charge
C1_Witness == op = "to_xyz" /\ charge = Some(-1) /\ Len(atoms) = 2

\* C2: a Geometry whose charge is None is serialized by to_xyz() without any
\* $set / chrg / $end line, as if its charge were zero.
C2_UnsetChargeNoBlock ==
    (op = "to_xyz" /\ IsNone(charge)) => ~HasBlockLine(out)

AllLetters(name) == name # <<>> /\ \A i \in 1..Len(name) : name[i] \in Letters

\* C3: round trip: for a Geometry G of integer charge whose symbols are one
\* or more letters and whose coordinates print in fixed-point form,
\* from_xyz(G.to_xyz()) has as many atoms as G and, position by position, the
\* same symbol, x, y and z.
C3_RoundTrip ==
    (/\ op = "from_xyz(to_xyz)"
     /\ ~IsNone(pre.charge)
     /\ \A i \in 1..Len(pre.atoms) :
            /\ AllLetters(pre.atoms[i].name)
            /\ PrintsFixed(pre.atoms[i].x)
            /\ PrintsFixed(pre.atoms[i].y)
            /\ PrintsFixed(pre.atoms[i].z))
    => /\ Len(atoms) = Len(pre.atoms)
       /\ \A i \in 1..Len(atoms) :
              /\ atoms[i].name = pre.atoms[i].name
              /\ atoms[i].x = pre.atoms[i].x
              /\ atoms[i].y = pre.atoms[i].y
              /\ atoms[i].z = pre.atoms[i].z

RECURSIVE TerminatedAtomLines(_)
TerminatedAtomLines(es) ==
    IF es = <<>> THEN <<>>
    ELSE AtomLineOf(es[1]) \o <<NL>> \o TerminatedAtomLines(Tail(es))

\* the text C4 describes: every line, the last too, ends with a newline
TerminatedText(es) ==
    IntStr(Len(es)) \o <<NL>> \o T_title \o <<NL>> \o TerminatedAtomLines(es)

ExampleOut == 
    <<"2", "\n",
    "t", "i", "t", "l", "e", "\n",
    "H", " ", "0", ".", "0", " ", "0", ".", "0", " ", "0", ".", "0", " ", "\n",
    "H", " ", "0", ".", "0", " ", "0", ".", "0", " ", "0", ".", "7", "4", "1", "4", " ">>

\* C4 as stated: for charge 0, to_xyz() returns the count, the title and the
\* atom lines in order, each of these lines terminated by a newline.
C4_EveryLineTerminated ==
    (op = "to_xyz" /\ charge = Some(0)) => out = TerminatedText(atoms)

\* C4 amended: for charge 0, to_xyz() returns the count, the title and the
\* atom lines (<symbol> <x> <y> <z> and a space) in order, separated by
\* newlines, with no newline after the last line; the example geometry gives
\* "2\ntitle\nH 0.0 0.0 0.0 \nH 0.0 0.0 0.7414 ".
C4_LinesNewlineSeparated ==
    (op = "to_xyz" /\ charge = Some(0)) =>
        /\ out \o <<NL>> = TerminatedText(atoms)
        /\ atoms = from_xyz(ExampleXyz) => out = ExampleOut

\* C4 witness: the example: the parsed two-atom H2 text, charge set to 0,
\* serialized
C4_Witness ==
    op = "to_xyz" /\ charge = Some(0) /\ atoms = from_xyz(ExampleXyz) /\ Len(atoms) = 2

\* the atoms C5 describes for one line: an atom when the whole line is a
\* one-character symbol and three decimal tokens, none otherwise
LineAtoms(l) ==
    LET m == XYZ_PATTERN(l, 1)
    IN  IF m.end = Len(l) + 1 THEN <<Element_from_tuple(m.groups)>> ELSE <<>>

RECURSIVE LinesAtoms(_)
LinesAtoms(ls) == IF ls = <<>> THEN <<>> ELSE LineAtoms(ls[1]) \o LinesAtoms(Tail(ls))

\* C5: from_xyz(text) returns, in input order, exactly one atom for each line
\* that consists of a symbol token and three single-space-separated decimal
\* tokens, with that line's whole symbol and coordinates; every other line (a
\* line of four numbers, a line whose symbol has more than one character, ...)
\* contributes no atom.
C5_OnlyWholeLineAtoms ==
    op = "from_xyz" => atoms = LinesAtoms(SplitLines(xyz))

\* the active-electron count C6 names: the explicit one when given
ActiveElectrons == IF ~IsNone(args.num_active_el) THEN args.num_active_el[1]
                   ELSE args.mol[1]

\* C6: the values rendered for tce:qela and tce:qelb are equal and are
\* floor(E / 2), E being the explicit num_active_el when given and
\* num_electrons(mol) otherwise; an odd E is truncated, not rejected.
C6_AlphaBetaFloorHalf ==
    (op = "create_input_deck" /\ (~IsNone(args.mol) \/ ~IsNone(args.num_active_el))) =>
        /\ exc = "none"
        /\ deck.num_el_a = deck.num_el_b
        /\ \E q \in (-MaxElectrons - 1)..(MaxElectrons + 1) :
               /\ 2 * q <= ActiveElectrons
               /\ ActiveElectrons < 2 * q + 2
               /\ deck.num_el_a = IntStr(q)

\* C6 witness: a deck generated with a molecule of 2 electrons and an
\* explicit, odd num_active_el of 3
C6_Witness ==
    /\ op = "create_input_deck"
    /\ args.mol = Some(2)
    /\ args.num_active_el = Some(3)
    /\ deck.num_el_a = <<"1">>

\* C7: with neither mol nor num_active_el, create_input_deck raises
\* ValueError and returns no deck text, whatever the other parameters.
C7_NoElectronSourceRaises ==
    (op = "create_input_deck" /\ IsNone(args.mol) /\ IsNone(args.num_active_el)) =>
        exc = "ValueError" /\ deck = NoDeck

\* C7 witness: create_input_deck was called with neither source, with nopen
\* given and a two-atom geometry
C7_Witness ==
    /\ op = "create_input_deck"
    /\ IsNone(args.mol)
    /\ IsNone(args.num_active_el)
    /\ ~IsNone(args.nopen)
    /\ Len(atoms) = 2

\* C8: format_geometry(G) returns normally, for every Geometry G, the
\* per-atom lines element_to_xyz(name, x, y, z) of G in order, joined by
\* newlines.
C8_FormatGeometryLines ==
    op = "format_geometry" =>
        /\ exc = "none"
        /\ out = Join([i \in 1..Len(atoms) |->
                          element_to_xyz(atoms[i].name, atoms[i].x, atoms[i].y, atoms[i].z)],
                      <<NL>>)

\* C9: after any construction and sequence mutations, the count on line 1 of
\* to_xyz() equals the number of atom lines emitted, which equals the length
\* of the Geometry, the atom lines are in the Geometry's atom order, and
\* to_xyz() and reading coordinates leave the atoms and the charge unchanged.
C9_CountMatchesAtomLines ==
    /\ op = "to_xyz" =>
           LET ls == SplitLines(out)
               n  == Len(atoms)
           IN  /\ ls[1] = IntStr(n)
               /\ Cardinality({i \in 3..Len(ls) : ~IsBlockLine(ls[i])}) = n
               /\ Len(ls) >= n + 2
               /\ \A i \in 1..n : ls[i + 2] = AtomLineOf(atoms[i])
               /\ atoms = pre.atoms
               /\ charge = pre.charge
    /\ op = "coordinates" =>
           /\ atoms = pre.atoms
           /\ charge = pre.charge
           /\ Len(view) = Len(atoms)
           /\ \A i \in 1..Len(view) : view[i][1] = atoms[i].name

\* C9 witness: to_xyz() on a Geometry that was parsed from a one-atom text
\* and then grown by an append
C9_Witness ==
    /\ op = "to_xyz"
    /\ atoms = <<Element(<<"C">>, Units4(10000), Units4(20000), Units4(30000)), E_H0>>

\* C10: create_input_deck warns exactly when both mol and num_active_el are
\* given; it emits no warning when only one of them is.
C10_WarnsIffBothGiven ==
    op = "create_input_deck" =>
        (warned <=> (~IsNone(args.mol) /\ ~IsNone(args.num_active_el)))

====
